---- MODULE Spec2Model ----
(***************************************************************************)
(* agent-worklog: the work-log store (db.ts), its query layer              *)
(* (queries.ts), the summary (summary.ts), the local API server            *)
(* (server.ts), the harness installers (harnesses/claude.ts and the        *)
(* others), their registry (harnesses/index.ts) and the commands of        *)
(* bin/aw.ts.                                                              *)
(*                                                                         *)
(* The specifications of the module:                                       *)
(*   Spec            the store file, `aw task` and the read operations     *)
(*   EntrySpec       the same, where the description may be empty          *)
(*   SummarySpec     the same, with generateSummary                        *)
(*   ServerSpec      the store behind the request handler of the server    *)
(*   ConcurrentSpec  two `aw task` processes on one store, step by step    *)
(*   InstallSpec     one Claude configuration directory under install and  *)
(*                   uninstall                                             *)
(*   RegistrySpec    `aw install` and `aw uninstall` over the registered   *)
(*                   harnesses                                             *)
(*   FaultSpec       the same, where settings.json may be unparsable       *)
(***************************************************************************)
EXTENDS Integers, Sequences, FiniteSets, TLC

VARIABLES
    dirExists,   \* the config directory (AW_CONFIG_DIR or ~/.aw) exists
    dbFile,      \* worklog.db: "absent", "empty" (no schema) or "ready"
    rows,        \* the rows of work_entries, in rowid order
    seq,         \* sqlite_sequence for work_entries (AUTOINCREMENT)
    migrations,  \* how many times the drizzle migration was applied
    now,         \* the wall clock, in days
    last,        \* the operation that produced this state, with its outcome
    claude,      \* the Claude configuration directory of the scope in use
    tools,       \* what the harness registry sees of the other tools
    procs        \* the `aw task` processes under way, each at its own step

storeVars == <<dirExists, dbFile, rows, seq, migrations, now, procs>>
vars == <<dirExists, dbFile, rows, seq, migrations, now, last, claude, tools, procs>>

(***************************************************************************)
(* Bounds of the model                                                     *)
(***************************************************************************)
MaxEntries == 2     \* appends explored per store
MaxTime == 2        \* days the clock may advance
MaxLen == 3         \* length of the instruction file's initial content
MaxGrow == 14       \* install is not explored on files longer than this

(***************************************************************************)
(* Values                                                                  *)
(***************************************************************************)
Null == "<null>"    \* SQL NULL / JS null

\* What process.cwd(), git and the session variables give one invocation.
Envs == { [cwd |-> "/w/P", repo |-> "P", session |-> Null],
          [cwd |-> "/w/Q", repo |-> "Q", session |-> "s1"] }

\* JS truthiness of an optional string or number property.
Has(o, f) == f \in DOMAIN o
TruthyStr(o, f) == Has(o, f) /\ o[f] # ""
TruthyNum(o, f) == Has(o, f) /\ o[f] # 0

Min(a, b) == IF a < b THEN a ELSE b
Max(a, b) == IF a > b THEN a ELSE b
Range(s) == { s[i] : i \in DOMAIN s }

(***************************************************************************)
(* db.ts                                                                   *)
(***************************************************************************)
\* collectMetadata(cwd): sessionId is undefined when no variable is set.
collectMetadata(env) ==
    [ projectName |-> env.repo, workingDirectory |-> env.cwd ]
      @@ (IF env.session # Null THEN [sessionId |-> env.session] ELSE <<>>)

\* A store that gives every row the id 1.
NewWorkEntryWithFixedId(id, timestamp, description, metadata) ==
    [ id |-> 1,
      timestamp |-> timestamp,
      taskDescription |-> description,
      sessionId |-> IF Has(metadata, "sessionId") THEN metadata.sessionId ELSE Null,
      category |-> IF Has(metadata, "category") THEN metadata.category ELSE Null,
      projectName |-> IF Has(metadata, "projectName") THEN metadata.projectName ELSE Null,
      workingDirectory |-> metadata.workingDirectory ]

\* The row logTask builds: `metadata.x ?? null` for the optional fields.
NewWorkEntry(id, timestamp, description, metadata) ==
    [ id |-> id,
      timestamp |-> timestamp,
      taskDescription |-> description,
      sessionId |-> IF Has(metadata, "sessionId") THEN metadata.sessionId ELSE Null,
      category |-> IF Has(metadata, "category") THEN metadata.category ELSE Null,
      projectName |-> IF Has(metadata, "projectName") THEN metadata.projectName ELSE Null,
      workingDirectory |-> metadata.workingDirectory ]

\* initDatabase: isNewDatabase is read before the file is opened; the
\* migration runs only when the file did not exist.
InitDbFile(file) == IF file = "absent" THEN "ready" ELSE file
InitMigrations(file, n) == IF file = "absent" THEN n + 1 ELSE n

\* `aw task <description> [-c category]`: the action of bin/aw.ts, with
\* logTask and initDatabase inlined.
Task(description, catOpt, env) ==
    LET metadata0 == collectMetadata(env)
        metadata == IF TruthyStr(catOpt, "category")
                    THEN metadata0 @@ [category |-> catOpt.category]
                    ELSE metadata0
        file == InitDbFile(dbFile)
        entry == NewWorkEntry(seq + 1, now, description, metadata)
    IN /\ Len(rows) < MaxEntries
       /\ dirExists' = TRUE
       /\ dbFile' = file
       /\ migrations' = InitMigrations(dbFile, migrations)
       /\ IF file = "ready"
          THEN /\ rows' = Append(rows, entry)
               /\ seq' = seq + 1
               /\ last' = [ op |-> "task", description |-> description,
                            input |-> catOpt, outcome |-> "ok", exit |-> 0 ]
          ELSE /\ UNCHANGED <<rows, seq>>
               /\ last' = [ op |-> "task", description |-> description,
                            input |-> catOpt, outcome |-> "threw", exit |-> 1,
                            error |-> "Failed to log task: no such table: work_entries" ]
       /\ UNCHANGED <<now, claude, tools, procs>>

(***************************************************************************)
(* queries.ts                                                              *)
(***************************************************************************)
DefaultLimit == 50
DefaultOffset == 0

\* getDb: new Database(dbPath) needs the directory and creates the file.
GetDbThrows == ~dirExists
GetDbFile == IF dbFile = "absent" THEN "empty" ELSE dbFile

\* A faulty WHERE clause that drops the projectName condition.
WhereIgnoringProject(options, r, clock) ==
    /\ TruthyStr(options, "category") => r.category = options.category
    /\ TruthyStr(options, "sessionId") => r.sessionId = options.sessionId
    /\ TruthyNum(options, "daysBack") => r.timestamp >= clock - options.daysBack

\* A faulty WHERE clause whose window leaves out the cut-off day itself.
WhereAfterCutoff(options, r, clock) ==
    /\ TruthyStr(options, "category") => r.category = options.category
    /\ TruthyStr(options, "projectName") => r.projectName = options.projectName
    /\ TruthyStr(options, "sessionId") => r.sessionId = options.sessionId
    /\ TruthyNum(options, "daysBack") => r.timestamp > clock - options.daysBack

\* The WHERE clause getWorkEntries composes: a condition is pushed only for
\* a truthy option; the cut-off is taken from the clock at query time.
Where(options, r, clock) ==
    /\ TruthyStr(options, "category") => r.category = options.category
    /\ TruthyStr(options, "projectName") => r.projectName = options.projectName
    /\ TruthyStr(options, "sessionId") => r.sessionId = options.sessionId
    /\ TruthyNum(options, "daysBack") => r.timestamp >= clock - options.daysBack

Matching(options, clock) == { i \in DOMAIN rows : Where(options, rows[i], clock) }

\* ORDER BY timestamp DESC: rows of equal timestamp come in an order the
\* query does not fix.
Orderings(ids) ==
    { o \in [1..Cardinality(ids) -> ids] :
        /\ \A i, j \in DOMAIN o : i # j => o[i] # o[j]
        /\ \A i, j \in DOMAIN o : i < j => rows[o[i]].timestamp >= rows[o[j]].timestamp }

\* A page cut from the head of the ordered rows whatever the offset.
PageIgnoringOffset(o, limit, offset) ==
    [ k \in 1..Max(0, Min(limit, Len(o))) |-> rows[o[k]] ]

Page(o, limit, offset) ==
    [ k \in 1..Max(0, Min(limit, Len(o) - offset)) |-> rows[o[offset + k]] ]

\* getWorkEntries(options): every value the call can return in the current
\* state (one per order the ties may come in), or the error it throws.
getWorkEntries(options) ==
    IF GetDbThrows
    THEN { [ outcome |-> "threw", error |-> "directory does not exist" ] }
    ELSE IF GetDbFile # "ready"
    THEN { [ outcome |-> "threw", error |-> "no such table: work_entries" ] }
    ELSE LET limit == IF Has(options, "limit") THEN options.limit ELSE DefaultLimit
             offset == IF Has(options, "offset") THEN options.offset ELSE DefaultOffset
             ids == Matching(options, now)
         IN { [ outcome |-> "ok",
                entries |-> Page(o, limit, offset),
                total |-> Cardinality(ids) ] : o \in Orderings(ids) }

\* getRecentEntries(daysBack, limit): the window is applied whatever the
\* value of daysBack; no offset.
RecentDefaultDays == 7
RecentDefaultLimit == 100
Recent(daysBack, clock) == { i \in DOMAIN rows : rows[i].timestamp >= clock - daysBack }
getRecentEntries(daysBack, limit) ==
    IF GetDbThrows
    THEN { [ outcome |-> "threw", error |-> "directory does not exist" ] }
    ELSE IF GetDbFile # "ready"
    THEN { [ outcome |-> "threw", error |-> "no such table: work_entries" ] }
    ELSE { [ outcome |-> "ok", entries |-> Page(o, limit, 0) ] :
             o \in Orderings(Recent(daysBack, now)) }

\* getCategories / getProjects: SELECT DISTINCT of the non-null values.
getDistinct(field) ==
    IF GetDbThrows
    THEN [ outcome |-> "threw", error |-> "directory does not exist" ]
    ELSE IF GetDbFile # "ready"
    THEN [ outcome |-> "threw", error |-> "no such table: work_entries" ]
    ELSE [ outcome |-> "ok",
           values |-> { rows[i][field] : i \in DOMAIN rows } \ {Null} ]

getCategories == getDistinct("category")
getProjects == getDistinct("projectName")

\* A read that would also clear the table it reads.
ReadClearing(op) ==
    /\ dbFile' = (IF GetDbThrows THEN dbFile ELSE GetDbFile)
    /\ last' = [ op |-> op,
                 outcome |-> IF GetDbThrows \/ GetDbFile # "ready" THEN "threw" ELSE "ok" ]
    /\ rows' = << >>
    /\ UNCHANGED <<dirExists, seq, migrations, now, claude, tools, procs>>

\* A read operation runs: getDb opens (and so creates) the store file, the
\* statement runs or throws, and the connection is closed. What the call
\* returns is getWorkEntries(options), getCategories or getProjects, taken
\* in the state the call starts in; the rows are the same after the call.
Read(op) ==
    /\ dbFile' = (IF GetDbThrows THEN dbFile ELSE GetDbFile)
    /\ last' = [ op |-> op,
                 outcome |-> IF GetDbThrows \/ GetDbFile # "ready" THEN "threw" ELSE "ok" ]
    /\ UNCHANGED <<dirExists, rows, seq, migrations, now, claude, tools, procs>>

Query == Read("query")
ReadCategories == Read("categories")
ReadProjects == Read("projects")
ReadRecent == Read("recent")

\* The clock advances between invocations.
Tick ==
    /\ now < MaxTime
    /\ now' = now + 1
    /\ last' = [ op |-> "tick" ]
    /\ UNCHANGED <<dirExists, dbFile, rows, seq, migrations, claude, tools, procs>>

(***************************************************************************)
(* harnesses/types.ts: the markers and the instruction block               *)
(***************************************************************************)
\* The text of an instruction file is a sequence of tokens: "S" is the
\* start marker, "E" the end marker, "B" the body of the instructions,
\* "U" a stretch of user text and "N" one whitespace character.
WORKLOG_START_MARKER == "S"
WORKLOG_END_MARKER == "E"
WORKLOG_INSTRUCTIONS == << "S", "N", "B", "N", "E" >>

\* String.prototype.includes / indexOf (first occurrence, from 0) /
\* substring / trimEnd / trimStart / trim on token sequences.
Includes(content, tok) == \E i \in DOMAIN content : content[i] = tok
IndexOf(content, tok) ==
    (CHOOSE i \in DOMAIN content :
        content[i] = tok /\ \A j \in 1..(i - 1) : content[j] # tok) - 1
Substring(content, from, to) == SubSeq(content, from + 1, to)
Solid(s) == { i \in DOMAIN s : s[i] # "N" }
TrimEnd(s) ==
    IF Solid(s) = {} THEN << >>
    ELSE SubSeq(s, 1, CHOOSE i \in Solid(s) : \A j \in Solid(s) : j <= i)
TrimStart(s) ==
    IF Solid(s) = {} THEN << >>
    ELSE SubSeq(s, CHOOSE i \in Solid(s) : \A j \in Solid(s) : i <= j, Len(s))
Trim(s) == TrimStart(TrimEnd(s))

\* An InstallResult.
Ok(message) == [ success |-> TRUE, message |-> message ]
Failed(message) == [ success |-> FALSE, message |-> message ]

(***************************************************************************)
(* harnesses/claude.ts: CLAUDE.md                                          *)
(***************************************************************************)
\* A faulty updateClaudeMd that lacks the branch for a start marker without
\* an end marker, and so appends a block to such a file.
updateClaudeMdAppending(exists, content) ==
    IF exists /\ Includes(content, WORKLOG_START_MARKER)
              /\ Includes(content, WORKLOG_END_MARKER)
    THEN LET startIndex == IndexOf(content, WORKLOG_START_MARKER)
             endIndex == IndexOf(content, WORKLOG_END_MARKER) + 1
             before == Substring(content, 0, startIndex)
             after == Substring(content, endIndex, Len(content))
         IN [ exists |-> TRUE,
              content |-> before \o Trim(WORKLOG_INSTRUCTIONS) \o after,
              result |-> Ok("Updated Agent Work Log section in CLAUDE.md") ]
    ELSE [ exists |-> TRUE,
           content |-> IF content # << >>
                       THEN TrimEnd(content) \o << "N", "N" >>
                              \o Trim(WORKLOG_INSTRUCTIONS) \o << "N" >>
                       ELSE Trim(WORKLOG_INSTRUCTIONS) \o << "N" >>,
           result |-> Ok(IF exists THEN "Updated CLAUDE.md" ELSE "Created CLAUDE.md") ]

\* An updateClaudeMd that writes the block over a file without markers.
updateClaudeMdOverwriting(exists, content) ==
    IF exists /\ Includes(content, WORKLOG_START_MARKER)
              /\ Includes(content, WORKLOG_END_MARKER)
    THEN LET startIndex == IndexOf(content, WORKLOG_START_MARKER)
             endIndex == IndexOf(content, WORKLOG_END_MARKER) + 1
             before == Substring(content, 0, startIndex)
             after == Substring(content, endIndex, Len(content))
         IN [ exists |-> TRUE,
              content |-> before \o Trim(WORKLOG_INSTRUCTIONS) \o after,
              result |-> Ok("Updated Agent Work Log section in CLAUDE.md") ]
    ELSE IF exists /\ Includes(content, WORKLOG_START_MARKER)
    THEN [ exists |-> TRUE,
           content |-> content,
           result |-> Failed("CLAUDE.md contains Agent Work Log section without end marker. Please add <!-- End Agent Work Log --> marker.") ]
    ELSE [ exists |-> TRUE,
           content |-> Trim(WORKLOG_INSTRUCTIONS) \o << "N" >>,
           result |-> Ok(IF exists THEN "Updated CLAUDE.md" ELSE "Created CLAUDE.md") ]

\* updateClaudeMd(claudeDir): the file after the call and the result returned.
\* The end marker is one token long, so endIndex is its index plus 1.
updateClaudeMd(exists, content) ==
    IF exists /\ Includes(content, WORKLOG_START_MARKER)
              /\ Includes(content, WORKLOG_END_MARKER)
    THEN LET startIndex == IndexOf(content, WORKLOG_START_MARKER)
             endIndex == IndexOf(content, WORKLOG_END_MARKER) + 1
             before == Substring(content, 0, startIndex)
             after == Substring(content, endIndex, Len(content))
         IN [ exists |-> TRUE,
              content |-> before \o Trim(WORKLOG_INSTRUCTIONS) \o after,
              result |-> Ok("Updated Agent Work Log section in CLAUDE.md") ]
    ELSE IF exists /\ Includes(content, WORKLOG_START_MARKER)
    THEN [ exists |-> TRUE,
           content |-> content,
           result |-> Failed("CLAUDE.md contains Agent Work Log section without end marker. Please add <!-- End Agent Work Log --> marker.") ]
    ELSE [ exists |-> TRUE,
           content |-> IF content # << >>
                       THEN TrimEnd(content) \o << "N", "N" >>
                              \o Trim(WORKLOG_INSTRUCTIONS) \o << "N" >>
                       ELSE Trim(WORKLOG_INSTRUCTIONS) \o << "N" >>,
           result |-> Ok(IF exists THEN "Updated CLAUDE.md" ELSE "Created CLAUDE.md") ]

\* A removeFromClaudeMd that never removes the file.
removeFromClaudeMdKeepingFile(exists, content) ==
    IF ~exists
    THEN [ exists |-> FALSE, content |-> << >>,
           result |-> Ok("CLAUDE.md not found (nothing to remove)") ]
    ELSE IF Includes(content, WORKLOG_START_MARKER)
              /\ Includes(content, WORKLOG_END_MARKER)
    THEN LET startIndex == IndexOf(content, WORKLOG_START_MARKER)
             endIndex == IndexOf(content, WORKLOG_END_MARKER) + 1
             before == Substring(content, 0, startIndex)
             after == Substring(content, endIndex, Len(content))
             updatedContent == Trim(TrimEnd(before) \o << "N" >> \o TrimStart(after))
         IN IF Len(updatedContent) = 0
            THEN [ exists |-> TRUE, content |-> << >>,
                   result |-> Ok("Removed Agent Work Log section from CLAUDE.md") ]
            ELSE [ exists |-> TRUE, content |-> updatedContent \o << "N" >>,
                   result |-> Ok("Removed Agent Work Log section from CLAUDE.md") ]
    ELSE IF Includes(content, WORKLOG_START_MARKER)
    THEN [ exists |-> TRUE, content |-> content,
           result |-> Failed("CLAUDE.md contains Agent Work Log section without end marker. Cannot safely remove.") ]
    ELSE [ exists |-> TRUE, content |-> content,
           result |-> Ok("Agent Work Log section not found in CLAUDE.md (already removed)") ]

\* removeFromClaudeMd(claudeDir).
removeFromClaudeMd(exists, content) ==
    IF ~exists
    THEN [ exists |-> FALSE, content |-> << >>,
           result |-> Ok("CLAUDE.md not found (nothing to remove)") ]
    ELSE IF Includes(content, WORKLOG_START_MARKER)
              /\ Includes(content, WORKLOG_END_MARKER)
    THEN LET startIndex == IndexOf(content, WORKLOG_START_MARKER)
             endIndex == IndexOf(content, WORKLOG_END_MARKER) + 1
             before == Substring(content, 0, startIndex)
             after == Substring(content, endIndex, Len(content))
             updatedContent == Trim(TrimEnd(before) \o << "N" >> \o TrimStart(after))
         IN IF Len(updatedContent) = 0
            THEN [ exists |-> FALSE, content |-> << >>,
                   result |-> Ok("Removed empty CLAUDE.md") ]
            ELSE [ exists |-> TRUE, content |-> updatedContent \o << "N" >>,
                   result |-> Ok("Removed Agent Work Log section from CLAUDE.md") ]
    ELSE IF Includes(content, WORKLOG_START_MARKER)
    THEN [ exists |-> TRUE, content |-> content,
           result |-> Failed("CLAUDE.md contains Agent Work Log section without end marker. Cannot safely remove.") ]
    ELSE [ exists |-> TRUE, content |-> content,
           result |-> Ok("Agent Work Log section not found in CLAUDE.md (already removed)") ]

(***************************************************************************)
(* harnesses/claude.ts: settings.json                                      *)
(***************************************************************************)
\* A JSON object is a function from the keys it has; an array is a sequence.
\* A hook entry { hooks: [{type: 'command', command}] } is kept as the
\* record of its commands, [hooks |-> <<command, ...>>].
EmptyObject == << >>
Put(o, k, v) == [ x \in DOMAIN o \cup {k} |-> IF x = k THEN v ELSE o[x] ]
Delete(o, k) ==
    IF DOMAIN o \ {k} = {} THEN EmptyObject ELSE [ x \in DOMAIN o \ {k} |-> o[x] ]
Keys(o) == DOMAIN o

awPermission == "Bash(aw:*)"
awHookCommand == "aw hooks remind"

\* entry.hooks?.some(h => h.command?.includes('aw hooks remind'))
HasRemindHook(entry) == \E j \in DOMAIN entry.hooks : entry.hooks[j] = awHookCommand
NotAwPermission(p) == p # awPermission
NoRemindHook(entry) == ~HasRemindHook(entry)

\* if (!settings.permissions) settings.permissions = {}
EnsurePermissions(settings) ==
    IF ~Has(settings, "permissions")
    THEN Put(settings, "permissions", EmptyObject) ELSE settings
\* if (!settings.permissions.allow) settings.permissions.allow = []
EnsureAllow(settings) ==
    IF ~Has(settings.permissions, "allow")
    THEN Put(settings, "permissions", Put(settings.permissions, "allow", << >>))
    ELSE settings
\* !settings.permissions.allow.includes(awPermission)
LacksPermission(settings) == ~Includes(settings.permissions.allow, awPermission)
AddPermission(settings) ==
    IF LacksPermission(settings)
    THEN Put(settings, "permissions",
             Put(settings.permissions, "allow",
                 Append(settings.permissions.allow, awPermission)))
    ELSE settings
\* if (!settings.hooks) settings.hooks = {}
EnsureHooks(settings) ==
    IF ~Has(settings, "hooks") THEN Put(settings, "hooks", EmptyObject) ELSE settings
\* if (!settings.hooks.UserPromptSubmit) settings.hooks.UserPromptSubmit = []
EnsureUserPromptSubmit(settings) ==
    IF ~Has(settings.hooks, "UserPromptSubmit")
    THEN Put(settings, "hooks", Put(settings.hooks, "UserPromptSubmit", << >>))
    ELSE settings
\* !hookExists
LacksHook(settings) ==
    ~\E i \in DOMAIN settings.hooks.UserPromptSubmit :
         HasRemindHook(settings.hooks.UserPromptSubmit[i])
AddHook(settings) ==
    IF LacksHook(settings)
    THEN Put(settings, "hooks",
             Put(settings.hooks, "UserPromptSubmit",
                 Append(settings.hooks.UserPromptSubmit,
                        [ hooks |-> << awHookCommand >> ])))
    ELSE settings
\* What updateSettings leaves and returns, given what it had to add.
UpdatedSettings(addPermission, addHook, settings) ==
    [ settings |-> settings,
      modified |-> addPermission \/ addHook,
      results |->
         << IF addPermission THEN Ok("Added aw command permission")
                             ELSE Ok("aw command permission already exists"),
            IF addHook THEN Ok("Added UserPromptSubmit hook")
                       ELSE Ok("UserPromptSubmit hook already exists") >>
           \o (IF addPermission \/ addHook
               THEN << Ok("Updated settings.json") >> ELSE << >>) ]

\* updateSettings(claudeDir): the object in memory after the call, whether
\* it was written back, and the results returned.
updateSettings(exists, json) ==
    LET allowed == EnsureAllow(EnsurePermissions(IF exists THEN json ELSE EmptyObject))
        hooked == EnsureUserPromptSubmit(EnsureHooks(AddPermission(allowed)))
    IN UpdatedSettings(LacksPermission(allowed), LacksHook(hooked), AddHook(hooked))

\* settings.permissions?.allow holds the permission
HasPermission(settings) ==
    Has(settings, "permissions") /\ Has(settings.permissions, "allow")
        /\ Includes(settings.permissions.allow, awPermission)
RemovePermission(settings) ==
    IF HasPermission(settings)
    THEN Put(settings, "permissions",
             Put(settings.permissions, "allow",
                 SelectSeq(settings.permissions.allow, NotAwPermission)))
    ELSE settings
\* settings.hooks?.UserPromptSubmit is there
HasEntries(settings) ==
    Has(settings, "hooks") /\ Has(settings.hooks, "UserPromptSubmit")
Filtered(settings) ==
    IF HasEntries(settings)
    THEN SelectSeq(settings.hooks.UserPromptSubmit, NoRemindHook) ELSE << >>
RemovedHook(settings) ==
    HasEntries(settings)
        /\ Len(Filtered(settings)) < Len(settings.hooks.UserPromptSubmit)
\* delete settings.hooks when no key is left in it
WithHooks(settings, hooks) ==
    IF Keys(hooks) = {} THEN Delete(settings, "hooks")
    ELSE Put(settings, "hooks", hooks)
RemoveHook(settings) ==
    IF ~HasEntries(settings) THEN settings
    ELSE WithHooks(settings,
                   IF Len(Filtered(settings)) = 0
                   THEN Delete(settings.hooks, "UserPromptSubmit")
                   ELSE Put(settings.hooks, "UserPromptSubmit", Filtered(settings)))
\* delete settings.permissions.allow when it is empty
DropEmptyAllow(settings) ==
    IF Has(settings, "permissions") /\ Has(settings.permissions, "allow")
         /\ Len(settings.permissions.allow) = 0
    THEN Put(settings, "permissions", Delete(settings.permissions, "allow"))
    ELSE settings
\* delete settings.permissions when no key is left in it
DropEmptyPermissions(settings) ==
    IF Has(settings, "permissions") /\ Keys(settings.permissions) = {}
    THEN Delete(settings, "permissions")
    ELSE settings
\* What removeFromSettings leaves and returns, given what it removed.
StrippedSettings(hasPermission, hasEntries, removedHook, settings) ==
    [ settings |-> settings,
      modified |-> hasPermission \/ removedHook,
      results |->
         << IF hasPermission
            THEN Ok("Removed aw command permission")
            ELSE Ok("aw command permission not found (already removed)") >>
           \o (IF ~hasEntries THEN << >>
               ELSE IF removedHook
               THEN << Ok("Removed UserPromptSubmit hook") >>
               ELSE << Ok("UserPromptSubmit hook not found (already removed)") >>)
           \o (IF hasPermission \/ removedHook
               THEN << Ok("Updated settings.json") >> ELSE << >>) ]

\* removeFromSettings(claudeDir), for a settings file that exists.
removeFromSettings(json) ==
    LET settings1 == RemovePermission(json)
    IN StrippedSettings(HasPermission(json), HasEntries(settings1),
                        RemovedHook(settings1),
                        DropEmptyPermissions(DropEmptyAllow(RemoveHook(settings1))))

(***************************************************************************)
(* harnesses/claude.ts: the skill file and the harness                     *)
(***************************************************************************)
\* removeSkill(claudeDir): the results it returns. skills/worklog holds
\* nothing but SKILL.md; skills may hold another skill.
removeSkill(c) ==
    IF c.skillFile
    THEN << Ok("Removed skill file SKILL.md"),
            Ok("Removed empty directory skills/worklog") >>
           \o (IF ~c.otherSkill
               THEN << Ok("Removed empty directory skills") >> ELSE << >>)
    ELSE << Ok("Skill file not found (already removed)") >>

\* settings.json cannot be parsed: JSON.parse throws a SyntaxError.
Unparsable(c) == c.settingsExists /\ c.settingsLayout = "corrupt"

\* claudeHarness.install(global) on the directory c: ensureDirectoryExists
\* and installSkill leave `skilled`, then updateSettings (s) and
\* updateClaudeMd (m). The directory afterwards, and the results returned
\* unless the call raised.
Installed(c, skilled, s, m) ==
    IF Unparsable(c)
    THEN [ dir |-> skilled, raised |-> TRUE, results |-> << >> ]
    ELSE [ dir |-> [ skilled EXCEPT
                       !.settingsExists = @ \/ s.modified,
                       !.settings = IF s.modified THEN s.settings ELSE @,
                       !.settingsLayout = IF s.modified THEN "stringify" ELSE @,
                       !.mdExists = m.exists,
                       !.md = m.content ],
           raised |-> FALSE,
           results |-> << Ok("Installed skill to SKILL.md") >>
                         \o s.results \o << m.result >> ]
claudeInstall(c) ==
    Installed(c, [ c EXCEPT !.exists = TRUE, !.skillsDir = TRUE, !.skillFile = TRUE ],
              updateSettings(c.settingsExists, c.settings),
              updateClaudeMd(c.mdExists, c.md))

\* claudeHarness.uninstall(global): removeSkill leaves `unskilled`, then
\* removeFromSettings (s) and removeFromClaudeMd (m); nothing at all when the
\* directory is missing.
Uninstalled(c, unskilled, s, m) ==
    IF ~c.exists
    THEN [ dir |-> c, raised |-> FALSE,
           results |-> << Ok("Claude directory not found. Nothing to uninstall.") >> ]
    ELSE IF Unparsable(c)
    THEN [ dir |-> unskilled, raised |-> TRUE, results |-> << >> ]
    ELSE [ dir |-> [ unskilled EXCEPT
                       !.settings = IF s.modified THEN s.settings ELSE @,
                       !.settingsLayout = IF s.modified THEN "stringify" ELSE @,
                       !.mdExists = m.exists,
                       !.md = m.content ],
           raised |-> FALSE,
           results |-> removeSkill(c) \o s.results \o << m.result >> ]
claudeUninstall(c) ==
    Uninstalled(c, [ c EXCEPT !.skillFile = FALSE,
                              !.skillsDir = IF c.skillFile THEN c.otherSkill ELSE @ ],
                IF c.settingsExists
                THEN removeFromSettings(c.settings)
                ELSE [ settings |-> c.settings, modified |-> FALSE,
                       results |-> << Ok("Settings file not found (nothing to remove)") >> ],
                removeFromClaudeMd(c.mdExists, c.md))

\* One call of claudeHarness.install.
Install ==
    /\ Len(claude.md) <= MaxGrow
    /\ LET call == claudeInstall(claude)
       IN /\ claude' = call.dir
          /\ last' = [ op |-> "install", results |-> call.results,
                       raised |-> call.raised ]
    /\ UNCHANGED <<storeVars, tools>>

\* One call of claudeHarness.uninstall.
Uninstall ==
    /\ Len(claude.md) <= MaxGrow
    /\ LET call == claudeUninstall(claude)
       IN /\ claude' = call.dir
          /\ last' = [ op |-> "uninstall", results |-> call.results,
                       raised |-> call.raised ]
    /\ UNCHANGED <<storeVars, tools>>

\* The configuration directories install and uninstall start from: the
\* directory may be missing; settings.json may be missing, empty, hold the
\* user's own permissions and hooks, or hold the reminder hook in an entry
\* shared with a hook of the user's; CLAUDE.md may be missing or hold any
\* text of up to MaxLen tokens.
UserSettings ==
    [ permissions |-> [ allow |-> << "Bash(ls:*)" >>, deny |-> << "Read(.env)" >> ],
      hooks |-> [ UserPromptSubmit |-> << [ hooks |-> << "echo hi" >> ] >>,
                  PreToolUse |-> << [ hooks |-> << "echo pre" >> ] >> ],
      model |-> "opus" ]
SharedHookSettings ==
    [ hooks |-> [ UserPromptSubmit |->
                    << [ hooks |-> << awHookCommand, "echo hi" >> ] >> ] ]
InitialSettings ==
    { [ exists |-> FALSE, json |-> EmptyObject ],
      [ exists |-> TRUE, json |-> EmptyObject ],
      [ exists |-> TRUE, json |-> UserSettings ],
      [ exists |-> TRUE, json |-> SharedHookSettings ] }
Tokens == { "S", "E", "U", "N" }
Contents == UNION { [ 1..n -> Tokens ] : n \in 0..MaxLen }

NoClaude ==
    [ exists |-> FALSE, skillsDir |-> FALSE, skillFile |-> FALSE,
      otherSkill |-> FALSE, settingsExists |-> FALSE, settings |-> EmptyObject,
      settingsLayout |-> "none", mdExists |-> FALSE, md |-> << >> ]

ClaudeDirs ==
    { NoClaude } \cup
    { [ exists |-> TRUE, skillsDir |-> other, skillFile |-> FALSE,
        otherSkill |-> other, settingsExists |-> s.exists, settings |-> s.json,
        settingsLayout |-> IF s.exists THEN "user" ELSE "none",
        mdExists |-> TRUE, md |-> content ] :
        other \in BOOLEAN, s \in InitialSettings, content \in Contents }
    \cup
    { [ exists |-> TRUE, skillsDir |-> other, skillFile |-> FALSE,
        otherSkill |-> other, settingsExists |-> s.exists, settings |-> s.json,
        settingsLayout |-> IF s.exists THEN "user" ELSE "none",
        mdExists |-> FALSE, md |-> << >> ] :
        other \in BOOLEAN, s \in InitialSettings }

\* No other tool is in play.
NoTools == [ scope |-> "none" ]
\* No `aw task` process is stepped through.
NoProcs == << >>

InstallInit ==
    /\ tools = NoTools
    /\ procs = NoProcs
    /\ dirExists = FALSE
    /\ dbFile = "absent"
    /\ rows = << >>
    /\ seq = 0
    /\ migrations = 0
    /\ now = 0
    /\ last = [ op |-> "none" ]
    /\ claude \in ClaudeDirs

InstallNext == Install \/ Uninstall

InstallSpec == InstallInit /\ [][InstallNext]_vars

(***************************************************************************)
(* harnesses/cursor.ts, codex.ts, agents-md.ts                             *)
(***************************************************************************)
\* The world the registry works on is the Claude directory and `tools`:
\*   scope        "global" when the runs are given --global, else "local"
\*   claudeFound  `which claude` succeeds, or ~/.claude exists beside a
\*                local .claude
\*   cursorDir    ./.cursor exists;  cursorRule  worklog.mdc exists
\*   codexHome    ~/.codex exists;   codexBin    `which codex` succeeds
\*   codexMd      ~/.codex/AGENTS.md;  agentsMd  ./AGENTS.md
World == [ claude |-> claude, tools |-> tools ]
IsGlobal(w) == w.tools.scope = "global"
NoFile == [ exists |-> FALSE, content |-> << >> ]

\* updateAgentsMd / removeFromAgentsMd are updateClaudeMd /
\* removeFromClaudeMd with AGENTS.md in the messages.
AgentsMdMessage(message) ==
    CASE message = "Updated Agent Work Log section in CLAUDE.md" ->
           "Updated Agent Work Log section in AGENTS.md"
      [] message = "CLAUDE.md contains Agent Work Log section without end marker. Please add <!-- End Agent Work Log --> marker." ->
           "AGENTS.md contains Agent Work Log section without end marker. Please add <!-- End Agent Work Log --> marker."
      [] message = "Updated CLAUDE.md" -> "Updated AGENTS.md"
      [] message = "Created CLAUDE.md" -> "Created AGENTS.md"
      [] message = "CLAUDE.md not found (nothing to remove)" ->
           "AGENTS.md not found (nothing to remove)"
      [] message = "Removed empty CLAUDE.md" -> "Removed empty AGENTS.md"
      [] message = "Removed Agent Work Log section from CLAUDE.md" ->
           "Removed Agent Work Log section from AGENTS.md"
      [] message = "CLAUDE.md contains Agent Work Log section without end marker. Cannot safely remove." ->
           "AGENTS.md contains Agent Work Log section without end marker. Cannot safely remove."
      [] message = "Agent Work Log section not found in CLAUDE.md (already removed)" ->
           "Agent Work Log section not found in AGENTS.md (already removed)"
ForAgentsMd(r) ==
    [ exists |-> r.exists, content |-> r.content,
      result |-> [ success |-> r.result.success,
                   message |-> AgentsMdMessage(r.result.message) ] ]
updateAgentsMd(file) == ForAgentsMd(updateClaudeMd(file.exists, file.content))
removeFromAgentsMd(file) == ForAgentsMd(removeFromClaudeMd(file.exists, file.content))
FileOf(r) == [ exists |-> r.exists, content |-> r.content ]

\* harness.supportsGlobal and harness.detect(); opencodeHarness is left out.
Registry == << "claude", "cursor", "codex", "agents-md" >>
supportsGlobal(h) == h \in { "claude", "codex" }
displayName(h) ==
    CASE h = "claude" -> "Claude Code"
      [] h = "cursor" -> "Cursor"
      [] h = "codex" -> "OpenAI Codex"
      [] h = "agents-md" -> "AGENTS.md (Universal)"
detect(h, w) ==
    CASE h = "claude" -> w.tools.claudeFound \/ (IsGlobal(w) /\ w.claude.exists)
      [] h = "cursor" -> w.tools.cursorDir
      [] h = "codex" -> w.tools.codexHome \/ w.tools.codexBin
      [] h = "agents-md" -> TRUE

\* harness.install(global): the world afterwards and the results returned,
\* unless the call raised.
\* codex works on ~/.codex/AGENTS.md under --global and on ./AGENTS.md
\* otherwise; agents-md always works on ./AGENTS.md.
UsesCodexHome(h, w) == h = "codex" /\ IsGlobal(w)
InstructionFile(h, w) == IF UsesCodexHome(h, w) THEN w.tools.codexMd ELSE w.tools.agentsMd
WithInstructionFile(h, w, file) ==
    IF UsesCodexHome(h, w) THEN [ w EXCEPT !.tools.codexMd = file ]
    ELSE [ w EXCEPT !.tools.agentsMd = file ]

\* harness.install(global): c is what claudeHarness.install does, md what
\* updateAgentsMd does to the harness's instruction file.
HarnessInstalled(h, w, c, md) ==
    CASE h = "claude" ->
           [ world |-> [ w EXCEPT !.claude = c.dir ],
             raised |-> c.raised, results |-> c.results ]
      [] h = "cursor" ->
           [ world |-> [ w EXCEPT !.tools.cursorDir = TRUE, !.tools.cursorRule = TRUE ],
             raised |-> FALSE,
             results |-> << Ok("Created .cursor/rules/worklog.mdc") >> ]
      [] h \in { "codex", "agents-md" } ->
           [ world |-> WithInstructionFile(h,
                          IF UsesCodexHome(h, w)
                          THEN [ w EXCEPT !.tools.codexHome = TRUE ] ELSE w,
                          FileOf(md)),
             raised |-> FALSE, results |-> << md.result >> ]
harnessInstall(h, w) ==
    HarnessInstalled(h, w, claudeInstall(w.claude),
                     updateAgentsMd(InstructionFile(h, w)))

\* harness.uninstall(global).
HarnessUninstalled(h, w, c, md) ==
    CASE h = "claude" ->
           [ world |-> [ w EXCEPT !.claude = c.dir ],
             raised |-> c.raised, results |-> c.results ]
      [] h = "cursor" ->
           [ world |-> [ w EXCEPT !.tools.cursorRule = FALSE ],
             raised |-> FALSE,
             results |-> << IF w.tools.cursorRule
                            THEN Ok("Removed .cursor/rules/worklog.mdc")
                            ELSE Ok("Cursor rule not found (already removed)") >> ]
      [] h \in { "codex", "agents-md" } ->
           [ world |-> WithInstructionFile(h, w, FileOf(md)),
             raised |-> FALSE, results |-> << md.result >> ]
harnessUninstall(h, w) ==
    HarnessUninstalled(h, w, claudeUninstall(w.claude),
                       removeFromAgentsMd(InstructionFile(h, w)))

(***************************************************************************)
(* harnesses/index.ts: the registry                                        *)
(***************************************************************************)
getHarness(name) == { Registry[i] : i \in { j \in DOMAIN Registry : Registry[j] = name } }

detectHarnesses(w) ==
    LET Found(h) == h # "agents-md" /\ detect(h, w)
    IN SelectSeq(Registry, Found)

\* What a run hands back: the Map as the sequence of its entries in
\* insertion order, the harnesses whose install or uninstall was called, the
\* world afterwards, and whether the run raised instead of returning.
Returned(w, entries, calls) ==
    [ world |-> w, raised |-> FALSE, results |-> entries, calls |-> calls ]
Raised(w, calls) ==
    [ world |-> w, raised |-> TRUE, results |-> << >>, calls |-> calls ]
Entry(name, results) == [ name |-> name, results |-> results ]

\* A registry that leaves a harness without --global support out of the
\* collection in every loop.
UnsupportedOmitted(op, mode, h) ==
    IF mode = "named"
    THEN << Entry(h, << Failed(displayName(h) \o " does not support global installation") >> ) >>
    ELSE << >>

\* What the registry records for a harness that does not support --global:
\* a failure when the harness was named, a 'Skipped' success in the loop of
\* detectAndInstall, nothing in the loop of detectAndUninstall (`continue`).
Unsupported(op, mode, h) ==
    IF mode = "named"
    THEN << Entry(h, << Failed(displayName(h) \o " does not support global installation") >>) >>
    ELSE IF op = "install"
    THEN << Entry(h, << Ok("Skipped " \o displayName(h)
                            \o " (does not support global installation)") >>) >>
    ELSE << >>

\* The calls detectAndInstall (op = "install") and detectAndUninstall
\* (op = "uninstall") make on the harnesses hs, in order: the named harness,
\* the agents-md fallback (called whatever the scope), or the detected
\* harnesses. An exception leaves the function at once.
Combined(op, mode, h, unsupported, call, rest) ==
    IF unsupported
    THEN IF rest.raised THEN rest
         ELSE [ rest EXCEPT !.results = Unsupported(op, mode, h) \o @ ]
    ELSE IF call.raised
    THEN Raised(call.world, << h >>)
    ELSE IF rest.raised
    THEN [ rest EXCEPT !.calls = << h >> \o @ ]
    ELSE [ rest EXCEPT !.calls = << h >> \o @,
                       !.results = << Entry(h, call.results) >> \o @ ]
RECURSIVE Each(_, _, _, _)
EachFrom(op, mode, hs, w, unsupported, call) ==
    Combined(op, mode, Head(hs), unsupported, call,
             Each(op, mode, Tail(hs), IF unsupported THEN w ELSE call.world))
Each(op, mode, hs, w) ==
    IF hs = << >> THEN Returned(w, << >>, << >>)
    ELSE EachFrom(op, mode, hs, w,
                  mode # "fallback" /\ IsGlobal(w) /\ ~supportsGlobal(Head(hs)),
                  IF op = "install" THEN harnessInstall(Head(hs), w)
                  ELSE harnessUninstall(Head(hs), w))

\* A registry that hands a named harness the call without looking at the
\* scope it supports.
DispatchUnchecked(op, w, specificHarness) ==
    IF specificHarness # "" /\ getHarness(specificHarness) = {}
    THEN Returned(w, << Entry(specificHarness,
                              << Failed("Unknown harness: " \o specificHarness) >>) >>,
                  << >>)
    ELSE IF specificHarness # ""
    THEN Each(op, "fallback", << specificHarness >>, w)
    ELSE IF Len(detectHarnesses(w)) = 0
    THEN Each(op, "fallback", << "agents-md" >>, w)
    ELSE Each(op, "detected", detectHarnesses(w), w)

\* The body shared by detectAndInstall and detectAndUninstall; "" stands for
\* no name (an empty name is falsy as well).
Dispatch(op, w, specificHarness) ==
    LET detected == detectHarnesses(w)
        mode == IF specificHarness # "" THEN "named"
                ELSE IF Len(detected) = 0 THEN "fallback" ELSE "detected"
        targets == IF mode = "named" THEN << specificHarness >>
                   ELSE IF mode = "fallback" THEN << "agents-md" >> ELSE detected
    IN IF mode = "named" /\ getHarness(specificHarness) = {}
       THEN Returned(w, << Entry(specificHarness,
                                 << Failed("Unknown harness: " \o specificHarness) >>) >>,
                     << >>)
       ELSE Each(op, mode, targets, w)

detectAndInstall(w, specificHarness) == Dispatch("install", w, specificHarness)
detectAndUninstall(w, specificHarness) == Dispatch("uninstall", w, specificHarness)

(***************************************************************************)
(* bin/aw.ts: `aw install` and `aw uninstall`                              *)
(***************************************************************************)
\* The process of one command: an unknown --harness exits 1 before the
\* registry is called; an exception is caught and exits 1; otherwise the
\* results are printed, hasErrors only chooses the closing line, and the
\* process ends normally.
Command(op, harness, run) ==
    IF harness # "" /\ getHarness(harness) = {}
    THEN [ op |-> op, harness |-> harness, called |-> FALSE, raised |-> FALSE,
           results |-> << >>, calls |-> << >>, exit |-> 1 ]
    ELSE [ op |-> op, harness |-> harness, called |-> TRUE, raised |-> run.raised,
           results |-> run.results, calls |-> run.calls,
           exit |-> IF run.raised THEN 1 ELSE 0 ]

AwInstall(harness) ==
    LET called == ~(harness # "" /\ getHarness(harness) = {})
        run == detectAndInstall(World, harness)
    IN /\ claude' = IF called THEN run.world.claude ELSE claude
       /\ tools' = IF called THEN run.world.tools ELSE tools
       /\ last' = Command("aw install", harness, run)
       /\ UNCHANGED storeVars

AwUninstall(harness) ==
    LET called == ~(harness # "" /\ getHarness(harness) = {})
        run == detectAndUninstall(World, harness)
    IN /\ claude' = IF called THEN run.world.claude ELSE claude
       /\ tools' = IF called THEN run.world.tools ELSE tools
       /\ last' = Command("aw uninstall", harness, run)
       /\ UNCHANGED storeVars

\* The --harness values explored: none, each registered name, and a name
\* that is not registered.
HarnessArgs == { "", "claude", "cursor", "codex", "agents-md", "vim" }

\* The worlds the commands start from. An instruction file is missing,
\* holds user text, or holds a start marker without its end marker.
UserFile == [ exists |-> TRUE, content |-> << "U" >> ]
MalformedFile == [ exists |-> TRUE, content |-> << "S", "U" >> ]
ClaudeDir(s, f, layout) ==
    [ exists |-> TRUE, skillsDir |-> FALSE, skillFile |-> FALSE,
      otherSkill |-> FALSE, settingsExists |-> s.exists, settings |-> s.json,
      settingsLayout |-> layout, mdExists |-> f.exists, md |-> f.content ]
SomeClaudeDirs ==
    { NoClaude, ClaudeDir([ exists |-> TRUE, json |-> UserSettings ], UserFile, "user") }
      \cup { ClaudeDir([ exists |-> FALSE, json |-> EmptyObject ], f, "none") :
               f \in { NoFile, UserFile, MalformedFile } }
\* A Claude directory whose settings.json is not valid JSON.
BrokenClaudeDirs ==
    { ClaudeDir([ exists |-> TRUE, json |-> EmptyObject ], f, "corrupt") :
        f \in { NoFile, MalformedFile } }
SomeTools ==
    { [ scope |-> scope, claudeFound |-> found,
        cursorDir |-> cursor, cursorRule |-> FALSE,
        codexHome |-> codex.home, codexBin |-> codex.bin,
        codexMd |-> codex.md, agentsMd |-> agentsMd ] :
        scope \in { "global", "local" }, found \in BOOLEAN, cursor \in BOOLEAN,
        codex \in { [ home |-> FALSE, bin |-> FALSE, md |-> NoFile ],
                    [ home |-> FALSE, bin |-> TRUE, md |-> NoFile ],
                    [ home |-> TRUE, bin |-> FALSE, md |-> NoFile ],
                    [ home |-> TRUE, bin |-> FALSE, md |-> UserFile ] },
        agentsMd \in { NoFile, MalformedFile } }

StoreUntouched ==
    /\ dirExists = FALSE
    /\ dbFile = "absent"
    /\ rows = << >>
    /\ seq = 0
    /\ migrations = 0
    /\ now = 0
    /\ procs = NoProcs

RegistryInit ==
    /\ StoreUntouched
    /\ last = [ op |-> "none" ]
    /\ claude \in SomeClaudeDirs
    /\ tools \in SomeTools

RegistryNext ==
    \/ \E harness \in HarnessArgs : AwInstall(harness)
    \/ \E harness \in HarnessArgs : AwUninstall(harness)

RegistrySpec == RegistryInit /\ [][RegistryNext]_vars

\* The same commands where settings.json may be unparsable.
FaultInit ==
    /\ StoreUntouched
    /\ last = [ op |-> "none" ]
    /\ claude \in SomeClaudeDirs \cup BrokenClaudeDirs
    /\ tools \in SomeTools

FaultSpec == FaultInit /\ [][RegistryNext]_vars

(***************************************************************************)
(* Inputs                                                                  *)
(***************************************************************************)
\* The `aw task` invocations explored: -c is optional, and commander passes
\* an empty string through.
TaskInputs ==
    { [ description |-> "Task 1", options |-> [category |-> "feature"] ],
      [ description |-> "Task 2", options |-> [category |-> "bugfix"] ],
      [ description |-> "Task 3", options |-> <<>> ],
      [ description |-> "Task 3", options |-> [category |-> ""] ] }

Opt(f, S) == {<<>>} \cup { [x \in {f} |-> v] : v \in S }

QueryOptions ==
    { a @@ b @@ c @@ d :
        a \in Opt("category", {"", "feature"}),
        b \in Opt("projectName", {"Q"}),
        c \in Opt("sessionId", {"s1"}),
        d \in Opt("daysBack", {0, 1}) }
      \cup { [limit |-> 1], [limit |-> 1, category |-> "feature"] }

Init ==
    /\ dirExists \in BOOLEAN
    /\ dbFile = "absent"
    /\ rows = <<>>
    /\ seq = 0
    /\ migrations = 0
    /\ now = 0
    /\ last = [ op |-> "none" ]
    /\ claude = NoClaude
    /\ tools = NoTools
    /\ procs = NoProcs

Next ==
    \/ \E t \in TaskInputs, e \in Envs : Task(t.description, t.options, e)
    \/ Query
    \/ ReadCategories
    \/ ReadProjects
    \/ ReadRecent
    \/ Tick

Spec == Init /\ [][Next]_vars

\* `aw task` where the description argument may be the empty string:
\* commander takes "" for <description>, and neither the action nor logTask
\* looks at it.
EntryInputs ==
    { [ description |-> d, options |-> o ] :
        d \in { "", "Task 1" }, o \in { <<>>, [category |-> "feature"] } }

EntryNext ==
    \/ \E t \in EntryInputs, e \in Envs : Task(t.description, t.options, e)
    \/ Query
    \/ Tick

EntrySpec == Init /\ [][EntryNext]_vars

(***************************************************************************)
(* summary.ts: generateSummary and the text-generation collaborator        *)
(***************************************************************************)
SummaryDefaultDays == 7
SummaryLimit == 500
NoEntriesSummary == << "No work entries found for the specified time period." >>

\* The options generateSummary hands to getWorkEntries: daysBack (7 when
\* undefined) and the cap, then category and projectName when truthy.
SummaryQuery(options) ==
    [ daysBack |-> IF Has(options, "daysBack") THEN options.daysBack
                   ELSE SummaryDefaultDays,
      limit |-> SummaryLimit ]
      @@ (IF TruthyStr(options, "category")
          THEN [ category |-> options.category ] ELSE << >>)
      @@ (IF TruthyStr(options, "projectName")
          THEN [ projectName |-> options.projectName ] ELSE << >>)

\* What query() of the agent SDK does with the prompt: it streams text that
\* is concatenated, or it throws.
Replies ==
    { [ ok |-> TRUE, text |-> << "N", "B", "N" >> ],
      [ ok |-> FALSE ] }

\* generateSummary that builds the prompt and calls query() whatever the
\* number of entries.
SummarisedAlways(query, found, reply) ==
    IF found.outcome = "threw"
    THEN [ outcome |-> "threw", contacted |-> FALSE, error |-> found.error ]
    ELSE IF ~reply.ok
    THEN [ outcome |-> "threw", contacted |-> TRUE, error |-> "query failed" ]
    ELSE [ outcome |-> "ok", contacted |-> TRUE,
           summary |-> Trim(reply.text),
           entriesCount |-> Len(found.entries),
           daysBack |-> query.daysBack ]

\* The rest of generateSummary once getWorkEntries has returned `found`
\* (or thrown): the early return on no entries, else the call of query().
Summarised(query, found, reply) ==
    IF found.outcome = "threw"
    THEN [ outcome |-> "threw", contacted |-> FALSE, error |-> found.error ]
    ELSE IF Len(found.entries) = 0
    THEN [ outcome |-> "ok", contacted |-> FALSE,
           summary |-> NoEntriesSummary,
           entriesCount |-> 0,
           daysBack |-> query.daysBack ]
    ELSE IF ~reply.ok
    THEN [ outcome |-> "threw", contacted |-> TRUE, error |-> "query failed" ]
    ELSE [ outcome |-> "ok", contacted |-> TRUE,
           summary |-> Trim(reply.text),
           entriesCount |-> Len(found.entries),
           daysBack |-> query.daysBack ]

generateSummary(options, reply) ==
    { Summarised(SummaryQuery(options), found, reply) :
        found \in getWorkEntries(SummaryQuery(options)) }

\* The options of `aw summary` and of POST /api/summary: the command rejects
\* --days below 1, the server passes the body's daysBack as it is.
SummaryOptions ==
    { a @@ b : a \in Opt("daysBack", {0, 1}), b \in Opt("category", {"feature"}) }
      \cup { [projectName |-> "Q"] }

\* One summary: getDb opens (and so creates) the store file as every read
\* does, then generateSummary runs.
Summarize ==
    \E options \in SummaryOptions, reply \in Replies :
        \E result \in generateSummary(options, reply) :
            /\ dbFile' = (IF GetDbThrows THEN dbFile ELSE GetDbFile)
            /\ last' = [ op |-> "summarize", options |-> options ] @@ result
            /\ UNCHANGED <<dirExists, rows, seq, migrations, now, claude, tools, procs>>

\* The entries the summaries are taken of: one with a category, one without.
SummaryTasks ==
    { [ description |-> "Task 1", options |-> [category |-> "feature"] ],
      [ description |-> "Task 3", options |-> <<>> ] }

SummaryNext ==
    \/ \E t \in SummaryTasks, e \in Envs : Task(t.description, t.options, e)
    \/ Query
    \/ ReadCategories
    \/ ReadProjects
    \/ ReadRecent
    \/ Summarize
    \/ Tick

SummarySpec == Init /\ [][SummaryNext]_vars

(***************************************************************************)
(* server.ts: the request handler of startServer                           *)
(***************************************************************************)
\* generateToken(), drawn once when the server starts; "w" is any other
\* string a client may send.
token == "t"

\* A request: its method, the pathname of its URL, its Authorization header
\* (<<>> when there is none), the token parameter of its query string (Null
\* when there is none) and its body (whether JSON.parse takes it, and the
\* object it gives). The filter parameters of /api/worklog are left out of
\* the query string, so that getWorkEntries gets the defaults.
Authorizations ==
    { << >>,
      [ scheme |-> "Bearer", credentials |-> token ],
      [ scheme |-> "Bearer", credentials |-> "w" ],
      [ scheme |-> "Basic", credentials |-> token ] }
\* The header and the token parameter a request comes with.
Credentials ==
    { c \in Authorizations \X { Null, token, "w" } :
        c[1] = [ scheme |-> "Bearer", credentials |-> token ] => c[2] # token }
EmptyBody == [ parses |-> TRUE, value |-> << >> ]
Bodies ==
    { [ parses |-> FALSE, value |-> << >> ],
      [ parses |-> TRUE, value |-> [ daysBack |-> 1 ] ],
      [ parses |-> TRUE, value |-> [ category |-> "feature" ] ] }
Requests ==
    { [ method |-> m, path |-> p, authorization |-> c[1], query |-> c[2], body |-> EmptyBody ] :
        m \in { "GET", "POST", "OPTIONS" },
        p \in { "/health", "/api/worklog", "/api/summary", "/other" },
        c \in Credentials }
      \cup
    { [ method |-> "POST", path |-> "/api/summary",
        authorization |-> [ scheme |-> "Bearer", credentials |-> token ],
        query |-> Null, body |-> b ] : b \in Bodies }

\* json(res, data, status); `opened` tells whether the handler got as far as
\* getDb.
Json(status, body, opened) == [ status |-> status, body |-> body, opened |-> opened ]
Preflight == Json(204, [ empty |-> TRUE ], FALSE)
Healthy == Json(200, [ ok |-> TRUE ], FALSE)
unauthorized == Json(401, [ error |-> "Unauthorized" ], FALSE)
notFound == Json(404, [ error |-> "Not found" ], FALSE)

\* authHeader?.startsWith('Bearer ') ? authHeader.slice(7) : null
tokenFromHeader(req) ==
    IF Has(req.authorization, "scheme") /\ req.authorization.scheme = "Bearer"
    THEN req.authorization.credentials
    ELSE Null
tokenFromQuery(req) == req.query
\* The other way round: tokenFromQuery ?? tokenFromHeader.
providedTokenQueryFirst(req) ==
    IF tokenFromQuery(req) # Null THEN tokenFromQuery(req) ELSE tokenFromHeader(req)
\* tokenFromHeader ?? tokenFromQuery
providedToken(req) ==
    IF tokenFromHeader(req) # Null THEN tokenFromHeader(req) ELSE tokenFromQuery(req)

\* GET /api/worklog: getWorkEntries, getCategories and getProjects in one
\* object, or the 500 of the catch.
WorklogResponse(result, categories, projects) ==
    IF result.outcome = "threw"
    THEN Json(500, [ error |-> result.error ], TRUE)
    ELSE Json(200, [ entries |-> result.entries, total |-> result.total,
                     categories |-> categories.values,
                     projects |-> projects.values ], TRUE)

\* POST /api/summary: the result of generateSummary, or the 500 of the catch.
SummaryResponse(result) ==
    IF result.outcome = "threw"
    THEN Json(500, [ error |-> result.error ], TRUE)
    ELSE Json(200, [ summary |-> result.summary,
                     entriesCount |-> result.entriesCount,
                     daysBack |-> result.daysBack ], TRUE)

\* Routes that look at the path alone.
RoutedAnyMethod(req) ==
    IF req.path = "/api/worklog"
    THEN { WorklogResponse(result, getCategories, getProjects) :
             result \in getWorkEntries([ limit |-> DefaultLimit, offset |-> DefaultOffset ]) }
    ELSE IF req.path = "/api/summary"
    THEN IF ~req.body.parses
         THEN { Json(500, [ error |-> "Unexpected token" ], FALSE) }
         ELSE UNION { { SummaryResponse(result) :
                          result \in generateSummary(req.body.value, reply) } :
                      reply \in Replies }
    ELSE { notFound }

\* The try block of the handler: the two routes, else notFound.
Routed(req) ==
    IF req.path = "/api/worklog" /\ req.method = "GET"
    THEN { WorklogResponse(result, getCategories, getProjects) :
             result \in getWorkEntries([ limit |-> DefaultLimit, offset |-> DefaultOffset ]) }
    ELSE IF req.path = "/api/summary" /\ req.method = "POST"
    THEN IF ~req.body.parses
         THEN { Json(500, [ error |-> "Unexpected token" ], FALSE) }
         ELSE UNION { { SummaryResponse(result) :
                          result \in generateSummary(req.body.value, reply) } :
                      reply \in Replies }
    ELSE { notFound }

\* The handler, in the order of its early returns.
Handled(req) ==
    IF req.method = "OPTIONS" THEN { Preflight }
    ELSE IF req.path = "/health" THEN { Healthy }
    ELSE IF providedToken(req) # token THEN { unauthorized }
    ELSE Routed(req)

\* One request served. The routes that read the store open it as every read
\* does.
Request ==
    \E req \in Requests :
        \E res \in Handled(req) :
            /\ dbFile' = (IF res.opened /\ ~GetDbThrows
                          THEN GetDbFile ELSE dbFile)
            /\ last' = [ op |-> "request", request |-> req,
                         status |-> res.status, body |-> res.body ]
            /\ UNCHANGED <<dirExists, rows, seq, migrations, now, claude, tools, procs>>

ServerNext ==
    \/ \E e \in { e \in Envs : e.session = Null } :
          Task("Task 1", [category |-> "feature"], e)
    \/ Request
    \/ Tick

ServerSpec == Init /\ [][ServerNext]_vars

(***************************************************************************)
(* db.ts: two `aw task` processes on one store, step by step               *)
(***************************************************************************)
Procs == { 1, 2 }
\* What each process was asked to log.
Asked(p) ==
    IF p = 1 THEN [ description |-> "Task 1", category |-> "feature" ]
    ELSE [ description |-> "Task 2", category |-> "bugfix" ]

At(p, pc) == procs[p].pc = pc
Goto(p, pc) == [ procs EXCEPT ![p].pc = pc ]

\* initDatabase: const isNewDatabase = !existsSync(dbPath)
CheckExists(p) ==
    /\ At(p, "start")
    /\ procs' = [ procs EXCEPT ![p].pc = "checked",
                               ![p].isNewDatabase = (dbFile = "absent") ]
    /\ UNCHANGED <<dirExists, dbFile, rows, seq, migrations, now, last, claude, tools>>

\* initDatabase: if (!existsSync(dbDir)) mkdirSync(dbDir, { recursive: true })
MakeDir(p) ==
    /\ At(p, "checked")
    /\ dirExists' = TRUE
    /\ procs' = Goto(p, "dir")
    /\ UNCHANGED <<dbFile, rows, seq, migrations, now, last, claude, tools>>

\* initDatabase: new Database(dbPath) creates the file when it is missing.
Open(p) ==
    /\ At(p, "dir")
    /\ dbFile' = GetDbFile
    /\ procs' = Goto(p, "opened")
    /\ UNCHANGED <<dirExists, rows, seq, migrations, now, last, claude, tools>>

\* initDatabase: if (isNewDatabase) migrate(db, ...). The migration is one
\* transaction; a migration the store already records is not applied again.
Migrate(p) ==
    /\ At(p, "opened")
    /\ IF procs[p].isNewDatabase
       THEN /\ dbFile' = "ready"
            /\ migrations' = IF dbFile = "ready" THEN migrations ELSE migrations + 1
       ELSE UNCHANGED <<dbFile, migrations>>
    /\ procs' = Goto(p, "migrated")
    /\ UNCHANGED <<dirExists, rows, seq, now, last, claude, tools>>

\* logTask: db.insert(workEntries).values(entry).run(), one statement of the
\* storage engine; it throws 'no such table: work_entries' without a schema.
Insert(p) ==
    /\ At(p, "migrated")
    /\ IF dbFile = "ready"
       THEN /\ rows' = Append(rows,
                         NewWorkEntry(seq + 1, now, Asked(p).description,
                                      collectMetadata(procs[p].env)
                                        @@ [ category |-> Asked(p).category ]))
            /\ seq' = seq + 1
            /\ procs' = Goto(p, "done")
       ELSE /\ UNCHANGED <<rows, seq>>
            /\ procs' = Goto(p, "failed")
    /\ UNCHANGED <<dirExists, dbFile, migrations, now, last, claude, tools>>

\* The store the two processes find: none yet, or one an earlier `aw task`
\* created and wrote an entry to.
EarlierEntry ==
    NewWorkEntry(1, 0, "Task 3", [ projectName |-> "P", workingDirectory |-> "/w/P" ])

ConcurrentInit ==
    /\ \/ /\ dirExists \in BOOLEAN
          /\ dbFile = "absent"
          /\ rows = << >>
          /\ seq = 0
          /\ migrations = 0
       \/ /\ dirExists = TRUE
          /\ dbFile = "ready"
          /\ rows = << EarlierEntry >>
          /\ seq = 1
          /\ migrations = 1
    /\ now = 0
    /\ last = [ op |-> "none" ]
    /\ claude = NoClaude
    /\ tools = NoTools
    /\ procs \in [ Procs -> { [ pc |-> "start", isNewDatabase |-> FALSE, env |-> e ] :
                                e \in Envs } ]

ConcurrentNext ==
    \E p \in Procs :
        \/ CheckExists(p)
        \/ MakeDir(p)
        \/ Open(p)
        \/ Migrate(p)
        \/ Insert(p)

ConcurrentSpec == ConcurrentInit /\ [][ConcurrentNext]_vars

(***************************************************************************)
(* Claims about the store and the query layer (checked under Spec)         *)
(***************************************************************************)
NoFilters == <<>>

\* The category an `aw task` invocation was given (Null when -c is absent).
GivenCategory(input) == IF Has(input, "category") THEN input.category ELSE Null

\* C1: an append (`aw task` with a non-empty description and a category, or
\* no category) followed immediately by getWorkEntries({}) returns an entry
\* whose description and category equal the inputs, whatever the store held.
C1_AppendThenQuery ==
    (last.op = "task" /\ GivenCategory(last.input) # "") =>
        \A r \in getWorkEntries(NoFilters) :
            /\ r.outcome = "ok"
            /\ \E i \in DOMAIN r.entries :
                 /\ r.entries[i].taskDescription = last.description
                 /\ r.entries[i].category = GivenCategory(last.input)

\* C2: initDatabase is idempotent: once it has run, the store file exists
\* with the schema applied, and the migration was applied exactly once.
C2_MigratedExactlyOnce ==
    last.op = "task" => (dbFile = "ready" /\ migrations = 1)

\* C3: when the store file does not exist, getWorkEntries({}) returns
\* {entries: [], total: 0} and does not throw.
C3_QueryMissingStore ==
    [][ (dbFile = "absent" /\ last'.op = "query") =>
          /\ last'.outcome = "ok"
          /\ getWorkEntries(NoFilters) =
               { [ outcome |-> "ok", entries |-> <<>>, total |-> 0 ] } ]_vars

\* The stored entries that pass one filter, when the filter counts as given.
Entries == Range(rows)
With(field, o, given) ==
    IF given THEN { e \in Entries : e[field] = o[field] } ELSE Entries
Since(o, given) ==
    IF given THEN { e \in Entries : e.timestamp >= now - o.daysBack } ELSE Entries

\* The entries that satisfy every filter present in the options.
ProvidedMatch(o) ==
    With("category", o, Has(o, "category"))
      \cap With("projectName", o, Has(o, "projectName"))
      \cap With("sessionId", o, Has(o, "sessionId"))
      \cap Since(o, Has(o, "daysBack"))

\* The same, with a filter given as "" or a daysBack of 0 counted as omitted.
GivenMatch(o) ==
    With("category", o, Has(o, "category") /\ o.category # "")
      \cap With("projectName", o, Has(o, "projectName") /\ o.projectName # "")
      \cap With("sessionId", o, Has(o, "sessionId") /\ o.sessionId # "")
      \cap Since(o, Has(o, "daysBack") /\ o.daysBack # 0)

\* C4 as claimed: on an initialised store, getWorkEntries(filters) returns
\* exactly the stored entries that satisfy every provided filter, for every
\* combination of provided and omitted filters.
C4_EveryProvidedFilter ==
    dbFile = "ready" =>
        \A o \in QueryOptions : \A r \in getWorkEntries(o) :
            /\ r.outcome = "ok"
            /\ Range(r.entries) = ProvidedMatch(o)

\* C4 as amended: the same for the filters given a non-empty value; a filter
\* given as "" or a daysBack of 0 counts as omitted, and the result holds at
\* most `limit` (default 50) of the matching entries.
C4_FiltersCombineWithAnd ==
    dbFile = "ready" =>
        \A o \in QueryOptions : \A r \in getWorkEntries(o) :
            /\ r.outcome = "ok"
            /\ r.total = Cardinality(GivenMatch(o))
            /\ Range(r.entries) \subseteq GivenMatch(o)
            /\ Len(r.entries) = Min(IF Has(o, "limit") THEN o.limit ELSE DefaultLimit,
                                    Cardinality(GivenMatch(o)))

\* A query has run on a store in which "feature" and project "Q" each match
\* an entry, no entry matches both, and a limit of 1 cuts the result short.
C4_Witness ==
    /\ last.op = "query" /\ last.outcome = "ok"
    /\ \E r \in getWorkEntries([category |-> "feature"]) : Len(r.entries) >= 1
    /\ \E r \in getWorkEntries([projectName |-> "Q"]) : Len(r.entries) >= 1
    /\ \E r \in getWorkEntries([category |-> "feature", projectName |-> "Q"]) :
         r.entries = <<>> /\ r.total = 0
    /\ \E r \in getWorkEntries([limit |-> 1]) : Len(r.entries) = 1 /\ r.total = 2

(***************************************************************************)
(* Claims about install and uninstall (checked under InstallSpec)          *)
(***************************************************************************)
AllSucceeded(results) == \A i \in DOMAIN results : results[i].success
Messages(results) == { results[i].message : i \in DOMAIN results }
IsSolid(tok) == tok # "N"

\* The positions at which a complete instruction block starts.
BlockStarts(content) ==
    { i \in 1..(Len(content) - Len(WORKLOG_INSTRUCTIONS) + 1) :
        SubSeq(content, i, i + Len(WORKLOG_INSTRUCTIONS) - 1) = WORKLOG_INSTRUCTIONS }
BlockCount(content) == Cardinality(BlockStarts(content))

PermissionCount(json) ==
    IF Has(json, "permissions") /\ Has(json.permissions, "allow")
    THEN Cardinality({ i \in DOMAIN json.permissions.allow :
                         json.permissions.allow[i] = awPermission })
    ELSE 0
HookCount(json) ==
    IF Has(json, "hooks") /\ Has(json.hooks, "UserPromptSubmit")
    THEN LET entries == json.hooks.UserPromptSubmit
         IN Cardinality(UNION { { << i, j >> : j \in { k \in DOMAIN entries[i].hooks :
                                                       entries[i].hooks[k] = awHookCommand } } :
                                i \in DOMAIN entries })
    ELSE 0

\* C5: an install that follows a successful install leaves the marker block
\* exactly once in CLAUDE.md, 'Bash(aw:*)' and the 'aw hooks remind' hook
\* exactly once in settings.json, and reports both as already existing.
C5_InstallTwiceOnce ==
    [][ (last.op = "install" /\ AllSucceeded(last.results) /\ last'.op = "install") =>
          /\ BlockCount(claude'.md) = 1
          /\ PermissionCount(claude'.settings) = 1
          /\ HookCount(claude'.settings) = 1
          /\ "aw command permission already exists" \in Messages(last'.results)
          /\ "UserPromptSubmit hook already exists" \in Messages(last'.results) ]_vars

\* C6: an install into a CLAUDE.md in which an end marker follows a start
\* marker replaces a region running from a start marker through a later end
\* marker with the instruction block, and leaves what precedes and what
\* follows that region exactly as it was.
C6_OnlyMarkedRegionReplaced ==
    [][ ( /\ last'.op = "install"
          /\ claude.mdExists
          /\ \E i, j \in DOMAIN claude.md :
                /\ i < j
                /\ claude.md[i] = WORKLOG_START_MARKER
                /\ claude.md[j] = WORKLOG_END_MARKER ) =>
          \E i, j \in DOMAIN claude.md :
              /\ i < j
              /\ claude.md[i] = WORKLOG_START_MARKER
              /\ claude.md[j] = WORKLOG_END_MARKER
              /\ claude'.md = SubSeq(claude.md, 1, i - 1) \o WORKLOG_INSTRUCTIONS
                                \o SubSeq(claude.md, j + 1, Len(claude.md)) ]_vars

\* C7: when CLAUDE.md contains the start marker and no end marker, install
\* and uninstall both leave the file as it is and return a failure result;
\* install's asks for the end marker to be added.
C7_MalformedLeftAlone ==
    [][ ( /\ last'.op \in { "install", "uninstall" }
          /\ claude.mdExists
          /\ Includes(claude.md, WORKLOG_START_MARKER)
          /\ ~Includes(claude.md, WORKLOG_END_MARKER) ) =>
          /\ claude'.mdExists
          /\ claude'.md = claude.md
          /\ \E i \in DOMAIN last'.results :
               /\ ~last'.results[i].success
               /\ last'.results[i].message =
                    IF last'.op = "install"
                    THEN "CLAUDE.md contains Agent Work Log section without end marker. Please add <!-- End Agent Work Log --> marker."
                    ELSE "CLAUDE.md contains Agent Work Log section without end marker. Cannot safely remove." ]_vars

\* An install has just run on a CLAUDE.md with a start marker and no end
\* marker, and has returned a failure.
C7_Witness ==
    /\ last.op = "install"
    /\ claude.mdExists
    /\ Includes(claude.md, WORKLOG_START_MARKER)
    /\ ~Includes(claude.md, WORKLOG_END_MARKER)
    /\ Includes(claude.md, "U")
    /\ ~AllSucceeded(last.results)

\* The user's text in a file that holds an instruction block: the file
\* without its first block and without whitespace.
Remaining(content) ==
    LET i == CHOOSE k \in BlockStarts(content) : \A l \in BlockStarts(content) : k <= l
    IN SelectSeq(SubSeq(content, 1, i - 1)
                   \o SubSeq(content, i + Len(WORKLOG_INSTRUCTIONS), Len(content)),
                 IsSolid)

\* C8: an uninstall that follows a successful install removes the skill file
\* and the marker block: CLAUDE.md is deleted when nothing but whitespace
\* remains, and otherwise holds the remaining user text and no marker block.
C8_UninstallRemovesBlock ==
    [][ ( /\ last.op = "install" /\ AllSucceeded(last.results)
          /\ last'.op = "uninstall" ) =>
          /\ ~claude'.skillFile
          /\ IF Remaining(claude.md) = << >>
             THEN ~claude'.mdExists
             ELSE /\ claude'.mdExists
                  /\ BlockCount(claude'.md) = 0
                  /\ SelectSeq(claude'.md, IsSolid) = Remaining(claude.md) ]_vars

\* C9: an uninstall that follows a successful uninstall (one that removed
\* the skill file) changes no file and returns only successful results,
\* among them an 'already removed' report for the skill file, the
\* permission, the hook and the instruction block.
C9_SecondUninstallAlreadyRemoved ==
    [][ ( /\ last.op = "uninstall" /\ AllSucceeded(last.results)
          /\ "Removed skill file SKILL.md" \in Messages(last.results)
          /\ last'.op = "uninstall" ) =>
          /\ claude' = claude
          /\ AllSucceeded(last'.results)
          /\ { "Skill file not found (already removed)",
               "aw command permission not found (already removed)",
               "UserPromptSubmit hook not found (already removed)",
               "Agent Work Log section not found in CLAUDE.md (already removed)" }
               \subseteq Messages(last'.results) ]_vars

\* What settings.json holds besides the permission and the hook command
\* that install adds.
NotRemindCommand(command) == command # awHookCommand
NotEmpty(s) == s # << >>
OtherPermissions(json) ==
    IF Has(json, "permissions") /\ Has(json.permissions, "allow")
    THEN SelectSeq(json.permissions.allow, NotAwPermission)
    ELSE << >>
OtherCommands(json) ==
    IF Has(json, "hooks") /\ Has(json.hooks, "UserPromptSubmit")
    THEN SelectSeq([ i \in DOMAIN json.hooks.UserPromptSubmit |->
                       SelectSeq(json.hooks.UserPromptSubmit[i].hooks, NotRemindCommand) ],
                   NotEmpty)
    ELSE << >>
OtherKeys(json) ==
    { << "", k, json[k] >> : k \in Keys(json) \ { "permissions", "hooks" } }
      \cup (IF Has(json, "permissions")
            THEN { << "permissions", k, json.permissions[k] >> :
                     k \in Keys(json.permissions) \ { "allow" } }
            ELSE {})
      \cup (IF Has(json, "hooks")
            THEN { << "hooks", k, json.hooks[k] >> :
                     k \in Keys(json.hooks) \ { "UserPromptSubmit" } }
            ELSE {})

\* C10: uninstall leaves in settings.json every permission other than
\* 'Bash(aw:*)', every hook command other than 'aw hooks remind' (also one
\* in the same UserPromptSubmit entry) and every other key as it was.
C10_UninstallKeepsOtherSettings ==
    [][ (last'.op = "uninstall" /\ claude.settingsExists) =>
          /\ claude'.settingsExists
          /\ OtherPermissions(claude'.settings) = OtherPermissions(claude.settings)
          /\ OtherCommands(claude'.settings) = OtherCommands(claude.settings)
          /\ OtherKeys(claude'.settings) = OtherKeys(claude.settings) ]_vars

(***************************************************************************)
(* The harness registry and the install / uninstall commands               *)
(***************************************************************************)
Commands == { "aw install", "aw uninstall" }
\* The names keyed in the collection a run returned.
Names(results) == { results[i].name : i \in DOMAIN results }
\* Every InstallResult of the collection, whatever its harness.
SubResults(results) ==
    UNION { Range(results[i].results) : i \in DOMAIN results }

\* C11: a harness's install and uninstall never raise; a settings file that
\* cannot be parsed is reported as a failed InstallResult in the collection
\* the call returns.
C11_HarnessNeverRaises ==
    last.op \in Commands => ~last.raised

\* The harnesses a run without --harness has to work on in the world w: the
\* fallback when nothing is detected, else the detected harnesses that
\* support the scope.
Applicable(w) ==
    IF Len(detectHarnesses(w)) = 0 THEN { "agents-md" }
    ELSE { h \in Range(detectHarnesses(w)) : ~(IsGlobal(w) /\ ~supportsGlobal(h)) }

\* C12: a run of install or uninstall calls every applicable harness, even
\* after an earlier one failed, and returns the results of every harness it
\* called.
C12_SiblingsAttempted ==
    [][ (last'.op \in Commands /\ last'.harness = "")
          => /\ Applicable(World) \subseteq Range(last'.calls)
             /\ Range(last'.calls) \subseteq Names(last'.results) ]_vars

\* The single result recorded for a detected harness that is passed over.
Skipped(h) ==
    << Ok("Skipped " \o displayName(h) \o " (does not support global installation)") >>

\* C13: `aw install` without --harness installs only the agents-md fallback
\* when no harness is detected; otherwise it records, for each detected
\* harness in turn, a successful 'Skipped' result without calling install
\* when the harness does not support the scope, and the results of its
\* install when it does. agents-md is never among the detected harnesses.
C13_AutoInstall ==
    [][ (last'.op = "aw install" /\ last'.harness = "")
          => /\ "agents-md" \notin Range(detectHarnesses(World))
             /\ IF Len(detectHarnesses(World)) = 0
                THEN /\ last'.calls = << "agents-md" >>
                     /\ last'.results =
                          << Entry("agents-md", harnessInstall("agents-md", World).results) >>
                ELSE /\ Len(last'.results) = Len(detectHarnesses(World))
                     /\ \A i \in DOMAIN last'.results :
                          /\ last'.results[i].name = detectHarnesses(World)[i]
                          /\ IF IsGlobal(World) /\ ~supportsGlobal(last'.results[i].name)
                             THEN /\ last'.results[i].name \notin Range(last'.calls)
                                  /\ last'.results[i].results
                                       = Skipped(last'.results[i].name)
                             ELSE /\ last'.results[i].name \in Range(last'.calls)
                                  /\ last'.results[i].results
                                       = harnessInstall(last'.results[i].name, World).results
                     /\ Range(last'.calls) \subseteq Names(last'.results) ]_vars

\* A global `aw install` that skipped Cursor and installed into Claude Code.
C13_Witness ==
    /\ last.op = "aw install" /\ last.harness = ""
    /\ tools.scope = "global"
    /\ "claude" \in Range(last.calls)
    /\ \E i \in DOMAIN last.results :
           last.results[i].name = "cursor" /\ last.results[i].results = Skipped("cursor")

\* One entry, keyed by name, holding one failed result.
OneFailure(results, name) ==
    /\ Len(results) = 1
    /\ results[1].name = name
    /\ Len(results[1].results) = 1
    /\ ~results[1].results[1].success

\* What detectAndInstall(w, name) has to hand back (run) for a name given
\* explicitly; call is that harness's own install on w.
NamedInstall(w, name, run, call) ==
    IF getHarness(name) = {} \/ (IsGlobal(w) /\ ~supportsGlobal(name))
    THEN /\ OneFailure(run.results, name)
         /\ run.calls = << >>
         /\ run.world = w
    ELSE /\ run.results = << Entry(name, call.results) >>
         /\ run.calls = << name >>
         /\ run.world = call.world

\* C14: detectAndInstall with an explicit name returns exactly one failure
\* keyed by that name when the name is unknown or the harness does not
\* support the scope, calling no install and changing no file; otherwise it
\* returns exactly that harness's install results. `aw install --harness`
\* reports what detectAndInstall returned.
C14_NamedInstall ==
    [][ (last'.op = "aw install" /\ last'.harness # "")
          => /\ NamedInstall(World, last'.harness,
                             detectAndInstall(World, last'.harness),
                             harnessInstall(last'.harness, World))
             /\ last'.called
                  => /\ last'.results = detectAndInstall(World, last'.harness).results
                     /\ last'.calls = detectAndInstall(World, last'.harness).calls
                     /\ World' = detectAndInstall(World, last'.harness).world ]_vars

\* `aw install --global --harness cursor` returned its single failure.
C14_Witness ==
    /\ last.op = "aw install" /\ last.harness = "cursor"
    /\ tools.scope = "global"
    /\ OneFailure(last.results, "cursor")
    /\ last.calls = << >>

\* C15: `aw uninstall` returns results for the harness names for which
\* `aw install`, run in the same world with the same arguments, returns
\* results (a 'Skipped' entry for a detected harness without --global support
\* included), and calls uninstall on the harnesses install is called on.
C15_UninstallMirrorsInstall ==
    [][ (last'.op = "aw uninstall" /\ last'.called)
          => /\ Names(last'.results)
                  = Names(detectAndInstall(World, last'.harness).results)
             /\ last'.calls = detectAndInstall(World, last'.harness).calls ]_vars

\* C16: `aw install` and `aw uninstall` exit with a non-zero status whenever
\* some sub-result of the returned collection has success = false; status 0
\* means that every sub-result succeeded.
C16_ExitReflectsFailures ==
    (last.op \in Commands /\ \E r \in SubResults(last.results) : ~r.success)
        => last.exit # 0

\* The filters, limits and offsets the page claims are checked for.
PageFilters == { <<>>, [category |-> "feature"], [category |-> ""] }
PageOptions ==
    PageFilters
      \cup { f @@ [limit |-> 1, offset |-> 1] : f \in PageFilters }
      \cup { [limit |-> 1], [offset |-> 1], [offset |-> 3] }
LimitOf(o) == IF Has(o, "limit") THEN o.limit ELSE DefaultLimit
OffsetOf(o) == IF Has(o, "offset") THEN o.offset ELSE DefaultOffset

\* page holds `limit` entries of the set matching (fewer when it runs out),
\* newest first, with `offset` entries of the set ahead of it in that order.
IsPageOf(page, matching, limit, offset) ==
    /\ Len(page) = Max(0, Min(limit, Cardinality(matching) - offset))
    /\ Range(page) \subseteq matching
    /\ Cardinality(Range(page)) = Len(page)
    /\ \A i, j \in DOMAIN page : i < j => page[i].timestamp >= page[j].timestamp
    /\ \E ahead \in SUBSET (matching \ Range(page)) :
         /\ Cardinality(ahead) = Min(offset, Cardinality(matching))
         /\ \A a \in ahead : \A e \in Range(page) : a.timestamp >= e.timestamp
         /\ \A b \in (matching \ Range(page)) \ ahead :
              /\ \A e \in Range(page) : e.timestamp >= b.timestamp
              /\ \A a \in ahead : a.timestamp >= b.timestamp

C20_NewestFirstThenId ==
    (last.op = "query" /\ last.outcome = "ok") =>
        \A o \in QueryOptions :
            /\ Cardinality(getWorkEntries(o)) = 1
            /\ \A r \in getWorkEntries(o) : \A i, j \in DOMAIN r.entries :
                 i < j => \/ r.entries[i].timestamp > r.entries[j].timestamp
                          \/ /\ r.entries[i].timestamp = r.entries[j].timestamp
                             /\ r.entries[i].id > r.entries[j].id

Ids == { rows[i].id : i \in DOMAIN rows }

\* C18: the ids of the stored entries are distinct in every reachable state,
\* and each append assigns an id greater than every id assigned before it,
\* so that ids follow the order of insertion.
C18_IdsDistinctAndIncreasing ==
    [][ /\ \A i, j \in DOMAIN rows' : i < j => rows'[i].id < rows'[j].id
        /\ Len(rows') > Len(rows)
             => /\ Len(rows') = Len(rows) + 1
                /\ \A id \in Ids : rows'[Len(rows')].id > id
                /\ rows'[Len(rows')].id > seq
                /\ seq' = rows'[Len(rows')].id ]_vars

\* A second entry has been appended.
C18_Witness ==
    /\ last.op = "task" /\ last.outcome = "ok"
    /\ Len(rows) = 2
    /\ rows[2].id > rows[1].id

(***************************************************************************)
(* Claims about concurrent appends (checked under ConcurrentSpec)          *)
(***************************************************************************)
\* The rows that hold what process p was asked to log.
RowsOf(p) == { i \in DOMAIN rows : rows[i].taskDescription = Asked(p).description }

\* C17: however the steps of two concurrent `aw task` processes interleave,
\* once both have ended both appends have completed and each entry is stored
\* exactly once, under ids that differ; none fails on a missing schema.
C17_ConcurrentAppends ==
    (procs # NoProcs /\ \A p \in Procs : procs[p].pc \in { "done", "failed" })
        => /\ \A p \in Procs : procs[p].pc = "done" /\ Cardinality(RowsOf(p)) = 1
           /\ \A i, j \in DOMAIN rows : i # j => rows[i].id # rows[j].id

(***************************************************************************)
(* Claims about the time window, the frame of the store and the summary    *)
(* (checked under Spec)                                                    *)
(***************************************************************************)
\* The stored entries stamped at or after the clock minus n days.
Window(n) == { e \in Entries : e.timestamp >= now - n }
WindowDays == 0..2

\* What getWorkEntries and getRecentEntries return for daysBack = n is
\* exactly the window of n days: an entry n + 1 days old is left out and an
\* entry n - 1 days old is in.
QueryWindow(n) ==
    \A r \in getWorkEntries([ daysBack |-> n ]) :
        r.outcome = "ok" /\ Range(r.entries) = Window(n)
RecentWindow(n) ==
    \A r \in getRecentEntries(n, RecentDefaultLimit) :
        r.outcome = "ok" /\ Range(r.entries) = Window(n)

\* C21 as claimed: for every daysBack N >= 0 given to getWorkEntries or
\* getRecentEntries, the entries returned are the stored entries stamped at
\* or after the clock at query time minus N days.
C21_WindowForEveryDays ==
    dbFile = "ready" => \A n \in WindowDays : QueryWindow(n) /\ RecentWindow(n)

\* C21 as amended: the same for getRecentEntries and every N >= 0, and for
\* getWorkEntries and every N >= 1; getWorkEntries takes daysBack = 0 as no
\* window at all.
C21_WindowForPositiveDays ==
    dbFile = "ready" =>
        /\ \A n \in WindowDays : RecentWindow(n)
        /\ \A n \in WindowDays \ { 0 } : QueryWindow(n)
        /\ \A r \in getWorkEntries([ daysBack |-> 0 ]) : Range(r.entries) = Entries

\* A read has run two days after the first of two entries was stored: the
\* window of one day leaves the older entry out and keeps the newer one.
C21_Witness ==
    /\ last.op \in { "query", "recent" } /\ last.outcome = "ok"
    /\ Len(rows) = 2
    /\ rows[1].timestamp = now - 2
    /\ rows[2].timestamp = now
    /\ \A r \in getWorkEntries([ daysBack |-> 1 ]) : r.entries = << rows[2] >>
    /\ \A r \in getRecentEntries(1, RecentDefaultLimit) : r.entries = << rows[2] >>

\* C22: `aw task` with an empty description fails and leaves the store as it
\* was, so that no stored entry has an empty description or an empty
\* working directory.
C22_EmptyDescriptionRejected ==
    [][ /\ (last'.op = "task" /\ last'.description = "")
             => (last'.outcome = "threw" /\ rows' = rows)
        /\ \A i \in DOMAIN rows' :
             rows'[i].taskDescription # "" /\ rows'[i].workingDirectory # "" ]_vars

\* C23: the store is append-only. A successful `aw task` adds exactly one
\* entry behind the entries already stored and leaves those as they were, a
\* failed one adds none, and no read (query, recent, categories, projects,
\* summarize) adds, changes or removes an entry.
Reads == { "query", "recent", "categories", "projects", "summarize" }
C23_AppendOnly ==
    [][ /\ (last'.op = "task" /\ last'.outcome = "ok")
             => (Len(rows') = Len(rows) + 1 /\ SubSeq(rows', 1, Len(rows)) = rows)
        /\ (last'.op = "task" /\ last'.outcome = "threw") => rows' = rows
        /\ last'.op \in Reads => rows' = rows ]_vars
C23_Witness ==
    /\ last.op = "summarize" /\ last.outcome = "ok"
    /\ Len(rows) = 2
    /\ rows[1].id < rows[2].id

\* C24: a summary whose window and filters match no entry returns the fixed
\* sentinel with entry count 0 and does not call the text-generation
\* collaborator; the collaborator is called only when an entry matches.
SummaryMatch(options) ==
    GivenMatch(options @@ [ daysBack |-> SummaryDefaultDays ])
Exempt(req) == req.method = "OPTIONS" \/ (req.method = "GET" /\ req.path = "/health")
HeaderCarries(req) ==
    /\ Has(req.authorization, "scheme")
    /\ req.authorization.scheme = "Bearer"
    /\ req.authorization.credentials = token
HasBearer(req) == Has(req.authorization, "scheme") /\ req.authorization.scheme = "Bearer"
QueryCarries(req) == req.query = token
IsUnauthorized == last.status = 401 /\ last.body = [ error |-> "Unauthorized" ]

\* C25 as claimed: every request other than an OPTIONS preflight or GET
\* /health is answered 401 {error: 'Unauthorized'} when neither the bearer
\* header nor the token parameter carries the server's token, and is not
\* answered 401 when the header or the query string carries it; OPTIONS and
\* GET /health are answered without a token.
C25_TokenByHeaderOrQuery ==
    last.op = "request" =>
        /\ (~Exempt(last.request) /\ ~HeaderCarries(last.request) /\ ~QueryCarries(last.request))
             => IsUnauthorized
        /\ (HeaderCarries(last.request) \/ QueryCarries(last.request)) => last.status # 401
        /\ Exempt(last.request) => last.status \in { 200, 204 }

\* C25, amended: the header comes first. A request that is neither OPTIONS
\* nor to /health (whatever its method) is answered 401 {error:
\* 'Unauthorized'} unless its bearer header carries the token or, having no
\* bearer header, its token parameter does; then it is not answered 401.
\* OPTIONS and /health are answered without a token.
Unguarded(req) == req.method = "OPTIONS" \/ req.path = "/health"
Authorized(req) == HeaderCarries(req) \/ (~HasBearer(req) /\ QueryCarries(req))
C25_HeaderThenQuery ==
    last.op = "request" =>
        /\ (~Unguarded(last.request) /\ ~Authorized(last.request)) => IsUnauthorized
        /\ (~Unguarded(last.request) /\ Authorized(last.request)) => last.status # 401
        /\ Unguarded(last.request) => last.status \in { 200, 204 }
C25_Witness ==
    /\ last.op = "request"
    /\ last.request.path = "/api/worklog" /\ last.request.method = "GET"
    /\ last.request.authorization = << >>
    /\ last.request.query = token
    /\ last.status = 200
    /\ Len(last.body.entries) = 1

\* C26 as claimed: every request whose path and method is not one of GET
\* /health, GET /api/worklog, POST /api/summary, OPTIONS * is answered 404
\* {error: 'Not found'}.
Defined(req) ==
    \/ req.method = "OPTIONS"
    \/ req.method = "GET" /\ req.path \in { "/health", "/api/worklog" }
    \/ req.method = "POST" /\ req.path = "/api/summary"
IsNotFound == last.status = 404 /\ last.body = [ error |-> "Not found" ]
C26_UndefinedIsNotFound ==
    (last.op = "request" /\ ~Defined(last.request)) => IsNotFound

\* C26, amended: of the requests that are not one of the endpoints, those
\* to /health are answered as GET /health is, those that do not carry the
\* token are answered 401, and the others 404 {error: 'Not found'}.
C26_AuthorizedUndefinedIsNotFound ==
    (last.op = "request" /\ ~Defined(last.request)) =>
        IF last.request.path = "/health" THEN last.status = 200 /\ last.body = [ ok |-> TRUE ]
        ELSE IF Authorized(last.request) THEN IsNotFound
        ELSE IsUnauthorized
C26_Witness ==
    /\ last.op = "request"
    /\ last.request.path = "/other" /\ last.request.method = "GET"
    /\ HeaderCarries(last.request)
    /\ IsNotFound

(***************************************************************************)
(* Claims about the instruction file under install and uninstall           *)
(***************************************************************************)
NoMarkers(content) ==
    ~Includes(content, WORKLOG_START_MARKER) /\ ~Includes(content, WORKLOG_END_MARKER)
IsPrefix(a, b) == Len(a) <= Len(b) /\ SubSeq(b, 1, Len(a)) = a
Rest(a, b) == SubSeq(b, Len(a) + 1, Len(b))
\* The block stands in `content` behind a blank line, and only whitespace
\* follows it.
BehindBlankLine(content) ==
    \E k \in 3..Len(content) :
        /\ content[k - 2] = "N" /\ content[k - 1] = "N"
        /\ Trim(SubSeq(content, k, Len(content))) = WORKLOG_INSTRUCTIONS

\* C27 as claimed: an install that finds no CLAUDE.md creates it holding the
\* instruction block and nothing else; an install that finds a CLAUDE.md with
\* neither marker appends the block behind a blank line, and what the file
\* held stands unchanged in front of it.
C27_AppendKeepsContent ==
    [][ last'.op = "install" =>
          /\ ~claude.mdExists =>
               /\ claude'.mdExists
               /\ Trim(claude'.md) = WORKLOG_INSTRUCTIONS
          /\ (claude.mdExists /\ NoMarkers(claude.md)) =>
               /\ claude'.mdExists
               /\ IsPrefix(claude.md, claude'.md)
               /\ Trim(Rest(claude.md, claude'.md)) = WORKLOG_INSTRUCTIONS
               /\ claude.md # << >> => BehindBlankLine(claude'.md) ]_vars

\* C27, amended: the created file is the block and a newline. The appended
\* block stands behind what the file held with its trailing whitespace cut
\* off, a blank line between them, and a newline after it; an empty file
\* gets what a missing one gets.
C27_AppendTrimsContent ==
    [][ last'.op = "install" =>
          /\ (~claude.mdExists \/ (claude.mdExists /\ claude.md = << >>)) =>
               /\ claude'.mdExists
               /\ claude'.md = WORKLOG_INSTRUCTIONS \o << "N" >>
          /\ (claude.mdExists /\ NoMarkers(claude.md) /\ claude.md # << >>) =>
               /\ claude'.mdExists
               /\ claude'.md = TrimEnd(claude.md) \o << "N", "N" >>
                                 \o WORKLOG_INSTRUCTIONS \o << "N" >> ]_vars
\* An install has appended the block to a file holding user text.
C27_Witness ==
    /\ last.op = "install"
    /\ claude.mdExists
    /\ claude.md = << "N", "U", "N", "N" >> \o WORKLOG_INSTRUCTIONS \o << "N" >>

\* C28: from a config directory without a store file, whatever reads and
\* appends have run, the store file holds the work_entries schema whenever
\* it exists, and every `aw task` succeeds.
C28_StoreFileHasSchema ==
    /\ dbFile # "absent" => dbFile = "ready"
    /\ last.op = "task" => last.outcome = "ok"

\* C29: under --global the registry calls install and uninstall only on
\* harnesses that support the global scope, whether the harness was named,
\* detected or is the AGENTS.md fallback, and no file of the current
\* working directory (./AGENTS.md, ./.cursor) is created or modified.
C29_GlobalOnlyWhereSupported ==
    [][ (last'.op \in Commands /\ tools.scope = "global") =>
          /\ \A h \in Range(last'.calls) : supportsGlobal(h)
          /\ tools'.agentsMd = tools.agentsMd
          /\ tools'.cursorDir = tools.cursorDir
          /\ tools'.cursorRule = tools.cursorRule ]_vars

\* The files an install may have found: none, or one holding neither marker.
PriorFiles ==
    { NoFile } \cup
    { [ exists |-> TRUE, content |-> content ] :
        content \in { c \in Contents : NoMarkers(c) } }
\* Install turns the file f into a file holding `content`.
InstalledFrom(f, content) ==
    FileOf(updateClaudeMd(f.exists, f.content)) = [ exists |-> TRUE, content |-> content ]

\* C30 as claimed: an uninstall that follows an install brings the
\* instruction file back to what it was before the install: the same content
\* when it held neither marker, no file when there was none.
C30_RoundTrip ==
    [][ (last.op = "install" /\ last'.op = "uninstall") =>
          \A f \in PriorFiles :
              InstalledFrom(f, claude.md) =>
                  /\ claude'.mdExists = f.exists
                  /\ claude'.md = f.content ]_vars

\* C30, amended: the round trip holds up to the whitespace around the
\* user's text. After the uninstall the file holds the previous content
\* without its leading and trailing whitespace, and a newline; there is no
\* file when there was none or when it held whitespace only.
C30_RoundTripUpToWhitespace ==
    [][ (last.op = "install" /\ last'.op = "uninstall") =>
          \A f \in PriorFiles :
              InstalledFrom(f, claude.md) =>
                  IF Trim(f.content) = << >>
                  THEN ~claude'.mdExists
                  ELSE /\ claude'.mdExists
                       /\ claude'.md = Trim(f.content) \o << "N" >> ]_vars
\* An uninstall has cut the block out of a file and left the user's text.
C30_Witness ==
    /\ last.op = "uninstall"
    /\ "Removed Agent Work Log section from CLAUDE.md" \in Messages(last.results)
    /\ claude.mdExists
    /\ claude.md = << "U", "N", "U", "N" >>

====
